---- MODULE Spec2Model ----
(***************************************************************************)
(* Gesture Dash: the per-frame game loop of components/RunnerGame.tsx      *)
(* (src/unnamed/part_000), the gesture classifier of services/vision.ts    *)
(* and the commentary request of services/gemini.ts (src/unnamed/part_001).*)
(*                                                                         *)
(* Lengths and velocities are kept in tenths of a pixel, so that the       *)
(* source's 0.6 (GRAVITY) and 6 * 1.8 = 10.8 (turbo speed) are integers;   *)
(* the arithmetic is exact, the rounding of IEEE doubles is not modelled.  *)
(* A React state setter followed by the re-render that rebuilds `tick` is  *)
(* taken as one step: a frame sees the phase the previous frame left.      *)
(***************************************************************************)
EXTENDS Integers, Sequences, FiniteSets, TLC

VARIABLES
    gameState,    \* React state: GameState
    score,        \* React state: the score shown by the HUD
    visionState,  \* React state: the VisionState shown by the HUD
    aiMessage,    \* React state: the commentary text
    gameRef,      \* gameRef.current: player, obstacles, frameCount, currentSpeed, score
    webcam,       \* environment: the video element (readyState, what the landmarker would see)
    apiKey,       \* environment: process.env.API_KEY is set
    pending,      \* commentary requests in flight (generateGameOverMessage awaiting the service)
    session,      \* history: number of resets so far
    spawned,      \* history: obstacles pushed since the last reset
    budget,       \* history: obstacles the exploration may still spawn
    idle,         \* history: frames the spawn gate has been open without a spawn
    changes,      \* history: webcam changes since the phase last changed
    landmarks,    \* VisionSpec: results.landmarks of the video frame last processed
    script        \* TurboSpec, JumpSpec: the scenes shown to the camera in turn, and for how many frames each

vars == <<gameState, score, visionState, aiMessage, gameRef, webcam, apiKey,
          pending, session, spawned, budget, idle, changes, landmarks,
          script>>

----------------------------------------------------------------------------
(* Game constants, in tenths of a pixel (per frame).                        *)
GRAVITY == 6
JUMP_FORCE == -120
GROUND_Y == 3500
DUCK_HEIGHT == 300
NORMAL_HEIGHT == 600
CANVAS_WIDTH == 8000
BASE_SPEED == 60
TurboSpeed == (BASE_SPEED * 18) \div 10      \* BASE_SPEED * TURBO_SPEED_MULTIPLIER
FastFall == 20                               \* p.vy += 2
ScoreReward == 10                            \* game.score += 10
MinGapBase == 2500                           \* 250 + (currentSpeed * 10)

(* Bounds of the exploration. A session (the frames between two resets) is *)
(* explored either with a steady scene in front of the camera and          *)
(* obstacles, for MaxFrame frames, or with a changing scene and no         *)
(* obstacle, for ChangeFrame frames.                                       *)
MaxFrame == 120       \* PLAYING frames of a session with a steady scene
ChangeFrame == 12     \* PLAYING frames of a session whose scene changes
MaxChange == 2        \* webcam changes during the PLAYING frames of a session
MaxPausedChange == 1  \* webcam changes while the phase stays START or GAME_OVER
MaxSpawn == 2         \* obstacles spawned in a run
MaxIdle == 7          \* frames with an open spawn gate before the draw hits
MaxSession == 1       \* resets
MaxPeriod == 3        \* frames a scripted scene stays in front of the camera
MaxScenes == 3        \* scenes of a script (JumpSpec)
MaxHands == 2       \* numHands of the landmarker

----------------------------------------------------------------------------
(* services/vision.ts                                                       *)
GestureType == {"NONE", "OPEN_PALM", "CLOSED_FIST", "THUMBS_UP"}

Neutral == [handCount |-> 0, gesture |-> "NONE", isTurbo |-> FALSE]

\* A hand as detectGesture reads it: thumb tip above thumb IP, and which of
\* index, middle, ring, pinky have their tip above their PIP.
Hands == [thumbUp : BOOLEAN, open : [1..4 -> BOOLEAN]]

extendedCount(hand) == Cardinality({f \in 1..4 : hand.open[f]})

detectGesture_ThumbAlone(hand) ==
    IF hand.thumbUp THEN "THUMBS_UP"
    ELSE IF extendedCount(hand) >= 3 THEN "OPEN_PALM"
    ELSE IF extendedCount(hand) <= 1 THEN "CLOSED_FIST"
    ELSE "NONE"

detectGesture(hand) ==
    IF hand.thumbUp /\ extendedCount(hand) = 0 THEN "THUMBS_UP"
    ELSE IF extendedCount(hand) >= 3 THEN "OPEN_PALM"
    ELSE IF extendedCount(hand) <= 1 THEN "CLOSED_FIST"
    ELSE "NONE"

RECURSIVE primaryGesture(_)
primaryGesture(hands) ==
    IF hands = <<>> THEN "NONE"
    ELSE IF detectGesture(Head(hands)) # "NONE" THEN detectGesture(Head(hands))
    ELSE primaryGesture(Tail(hands))

processVideoFrame(landmarkerReady, hands) ==
    IF ~landmarkerReady THEN Neutral
    ELSE [handCount |-> Len(hands),
          gesture   |-> primaryGesture(hands),
          isTurbo   |-> Len(hands) >= 2]

\* A hand with the four fingers extended.
PalmHand == [thumbUp |-> TRUE, open |-> [f \in 1..4 |-> TRUE]]

HandSeqs == UNION {[1..n -> Hands] : n \in 0..MaxHands}

VisionStates == {processVideoFrame(r, h) : r \in BOOLEAN, h \in HandSeqs}

\* What the video element offers to a frame: readyState === 4 or not, and,
\* when it is, the VisionState processVideoFrame returns for it.
Webcams == {[ready |-> FALSE, v |-> Neutral]} \cup
           {[ready |-> TRUE, v |-> s] : s \in VisionStates}

----------------------------------------------------------------------------
(* components/RunnerGame.tsx                                                *)
InitPlayer ==
    [x |-> 500, y |-> GROUND_Y - NORMAL_HEIGHT, width |-> 400,
     height |-> NORMAL_HEIGHT, vy |-> 0, isJumping |-> FALSE, isDucking |-> FALSE]

InitGame ==
    [player |-> InitPlayer, obstacles |-> <<>>, frameCount |-> 0,
     currentSpeed |-> BASE_SPEED, score |-> 0]

\* resetGame, lines 96-111: a fresh gameRef.current, whatever the old one was.
resetGame_KeepsObstacles(game) == [InitGame EXCEPT !.obstacles = game.obstacles]

resetGame(game) ==
    [player |-> [x |-> 500, y |-> GROUND_Y - NORMAL_HEIGHT, width |-> 400,
                 height |-> NORMAL_HEIGHT, vy |-> 0, isJumping |-> FALSE,
                 isDucking |-> FALSE],
     obstacles |-> <<>>, frameCount |-> 0, currentSpeed |-> BASE_SPEED, score |-> 0]

\* tick, line 130 and line 134: the gesture that starts and that restarts.
StartGesture(v) == v.gesture = "OPEN_PALM"

RestartGesture_OpenPalm(v) == v.gesture = "OPEN_PALM"

RestartGesture(v) == v.gesture = "THUMBS_UP"

\* Spec follows no script: WebcamChange changes the scene.
NoScript == [period |-> 1, scenes |-> <<>>]

NoMessage == [kind |-> "none", score |-> 0, session |-> 0]

Init ==
    /\ gameState = "START"
    /\ score = 0
    /\ visionState = Neutral
    /\ aiMessage = NoMessage
    /\ gameRef = InitGame
    /\ webcam \in Webcams
    /\ apiKey \in BOOLEAN
    /\ pending = {}
    /\ session = 0
    /\ spawned = 0
    /\ budget = MaxSpawn
    /\ idle = 0
    /\ changes = 0
    /\ landmarks = <<>>
    /\ script = NoScript

\* tick, lines 150-156: the CLOSED_FIST rule.
Duck_ShiftsDown(p) ==
    [p EXCEPT !.isDucking = TRUE, !.height = DUCK_HEIGHT,
              !.y = p.y + (NORMAL_HEIGHT - DUCK_HEIGHT),
              !.vy = IF p.isJumping THEN p.vy + FastFall ELSE p.vy]

Duck(p) ==
    [p EXCEPT !.isDucking = TRUE, !.height = DUCK_HEIGHT,
              !.y = GROUND_Y - DUCK_HEIGHT,
              !.vy = IF p.isJumping THEN p.vy + FastFall ELSE p.vy]

\* tick, lines 141-165: jump, duck, stand up.
PlayerControl_DoubleJump(p, gesture) ==
    LET j == IF gesture = "OPEN_PALM"
             THEN [p EXCEPT !.vy = JUMP_FORCE, !.isJumping = TRUE, !.isDucking = FALSE]
             ELSE p
    IN  IF gesture = "CLOSED_FIST"
        THEN Duck(j)
        ELSE IF j.isDucking
             THEN [j EXCEPT !.isDucking = FALSE, !.height = NORMAL_HEIGHT,
                            !.y = GROUND_Y - NORMAL_HEIGHT]
             ELSE j

PlayerControl(p, gesture) ==
    LET j == IF gesture = "OPEN_PALM" /\ ~p.isJumping
             THEN [p EXCEPT !.vy = JUMP_FORCE, !.isJumping = TRUE, !.isDucking = FALSE]
             ELSE p
    IN  IF gesture = "CLOSED_FIST"
        THEN Duck(j)
        ELSE IF j.isDucking
             THEN [j EXCEPT !.isDucking = FALSE, !.height = NORMAL_HEIGHT,
                            !.y = GROUND_Y - NORMAL_HEIGHT]
             ELSE j

\* tick, lines 167-170.
TurboSpeedOf(v) == IF v.isTurbo THEN TurboSpeed ELSE BASE_SPEED

\* tick, lines 186-195.
Gravity_LandsAtNormalHeight(p) ==
    IF p.y < GROUND_Y - p.height \/ p.vy < 0
    THEN [p EXCEPT !.y = p.y + p.vy, !.vy = p.vy + GRAVITY, !.isJumping = TRUE]
    ELSE [p EXCEPT !.vy = 0, !.isJumping = FALSE, !.y = GROUND_Y - NORMAL_HEIGHT]

Gravity(p) ==
    IF p.y < GROUND_Y - p.height \/ p.vy < 0
    THEN [p EXCEPT !.y = p.y + p.vy, !.vy = p.vy + GRAVITY, !.isJumping = TRUE]
    ELSE [p EXCEPT !.vy = 0, !.isJumping = FALSE, !.y = GROUND_Y - p.height]

NewObstacle(bird, id) ==
    [x |-> CANVAS_WIDTH,
     y |-> IF bird THEN GROUND_Y - 900 ELSE GROUND_Y - 400,
     width |-> IF bird THEN 400 ELSE 300,
     height |-> IF bird THEN 300 ELSE 400,
     type |-> IF bird THEN "BIRD" ELSE "CACTUS",
     id |-> id]

minGap_IgnoresSpeed(currentSpeed) == MinGapBase

minGap(currentSpeed) == MinGapBase + currentSpeed * 10

SpawnGate_NoGap(obstacles, currentSpeed) ==
    \/ obstacles = <<>>
    \/ CANVAS_WIDTH - obstacles[Len(obstacles)].x > 0

SpawnGate(obstacles, currentSpeed) ==
    \/ obstacles = <<>>
    \/ CANVAS_WIDTH - obstacles[Len(obstacles)].x > minGap(currentSpeed)

\* hit: Math.random() < 0.02; bird: Math.random() > 0.6.
spawnObstacle_Prepends(obstacles, currentSpeed, hit, bird, id) ==
    IF SpawnGate(obstacles, currentSpeed) /\ hit
    THEN <<NewObstacle(bird, id)>> \o obstacles
    ELSE obstacles

spawnObstacle(obstacles, currentSpeed, hit, bird, id) ==
    IF SpawnGate(obstacles, currentSpeed) /\ hit
    THEN Append(obstacles, NewObstacle(bird, id))
    ELSE obstacles

AABB_TouchCollides(p, obs) ==
    /\ p.x <= obs.x + obs.width
    /\ p.x + p.width >= obs.x
    /\ p.y <= obs.y + obs.height
    /\ p.y + p.height >= obs.y

AABB(p, obs) ==
    /\ p.x < obs.x + obs.width
    /\ p.x + p.width > obs.x
    /\ p.y < obs.y + obs.height
    /\ p.y + p.height > obs.y

\* tick, line 206.
OffScreen_LeftEdge(obs) == obs.x < 0

OffScreen(obs) == obs.x + obs.width < 0

RemoveAt(s, i) == SubSeq(s, 1, i - 1) \o SubSeq(s, i + 1, Len(s))

\* tick, lines 200-221: one pass from the last obstacle to the first. The
\* result carries the obstacles left, the score and the finalScore argument
\* of every handleGameOver call, in call order.
RECURSIVE MoveAndCollide(_, _, _, _, _, _)
RECURSIVE MoveAndCollide_BreaksOnHit(_, _, _, _, _, _)
MoveAndCollide_BreaksOnHit(obstacles, i, p, speed, sc, calls) ==
    IF i < 1 THEN [obstacles |-> obstacles, score |-> sc, calls |-> calls]
    ELSE LET k    == Len(obstacles) - i + 1
             obs  == [obstacles[k] EXCEPT !.x = obstacles[k].x - speed]
             off  == OffScreen(obs)
             rest == IF off THEN RemoveAt(obstacles, k)
                     ELSE [obstacles EXCEPT ![k] = obs]
             sc2  == IF off THEN sc + ScoreReward ELSE sc
         IN  IF AABB(p, obs)
             THEN [obstacles |-> rest, score |-> sc2, calls |-> Append(calls, sc2)]
             ELSE MoveAndCollide_BreaksOnHit(rest, i - 1, p, speed, sc2, calls)

MoveAndCollide(obstacles, i, p, speed, sc, calls) ==
    IF i < 1 THEN [obstacles |-> obstacles, score |-> sc, calls |-> calls]
    ELSE LET obs  == [obstacles[i] EXCEPT !.x = obstacles[i].x - speed]
             off  == OffScreen(obs)
             rest == IF off THEN RemoveAt(obstacles, i)
                     ELSE [obstacles EXCEPT ![i] = obs]
             sc2  == IF off THEN sc + ScoreReward ELSE sc
             hit  == AABB(p, obs)
         IN  MoveAndCollide(rest, i - 1, p, speed, sc2,
                            IF hit THEN Append(calls, sc2) ELSE calls)

\* services/gemini.ts: the string generateGameOverMessage resolves to.
Message_DropsScore(kind, finalScore, s) == [kind |-> kind, score |-> 0, session |-> s]

Message(kind, finalScore, s) == [kind |-> kind, score |-> finalScore, session |-> s]

\* handleGameOver, lines 89-93, for the calls of one frame: without an API
\* key generateGameOverMessage resolves before the next task, so the last
\* call's text is in place when the frame is over; with a key the request
\* is in flight until CommentaryResolved.
Requests_DropsScore(calls, s) ==
    {[score |-> 0, session |-> s, n |-> n] : n \in DOMAIN calls}

Requests(calls, s) == {[score |-> calls[n], session |-> s, n |-> n] : n \in DOMAIN calls}

\* tick, lines 133-136 and 174-180: outside PLAYING gameRef.current is only
\* replaced by resetGame; the frame draws and returns.
PausedGame_RunsPhysics(game, reset) ==
    IF reset THEN resetGame(game) ELSE [game EXCEPT !.player = Gravity(game.player)]

PausedGame(game, reset) == IF reset THEN resetGame(game) ELSE game

\* resetGame, lines 95-115, is the reset branch of TickPaused.
\* tick while the phase is START or GAME_OVER (lines 118-137, 174-180).
TickPaused ==
    /\ gameState # "PLAYING"
    /\ LET v     == webcam.v
           start == webcam.ready /\ gameState = "START" /\ StartGesture(v)
           reset == webcam.ready /\ gameState = "GAME_OVER" /\ RestartGesture(v)
       IN  /\ reset => session < MaxSession
           /\ visionState' = IF webcam.ready THEN v ELSE visionState
           /\ gameState' = IF start \/ reset THEN "PLAYING" ELSE gameState
           /\ gameRef' = PausedGame(gameRef, reset)
           /\ score' = IF reset THEN 0 ELSE score
           /\ aiMessage' = IF reset THEN NoMessage ELSE aiMessage
           /\ session' = IF reset THEN session + 1 ELSE session
           /\ spawned' = IF reset THEN 0 ELSE spawned
           /\ idle' = IF reset THEN 0 ELSE idle
           /\ changes' = IF start \/ reset THEN 0 ELSE changes
    /\ UNCHANGED <<webcam, apiKey, pending, budget, landmarks, script>>

\* tick while the phase is PLAYING (lines 118-233).
TickPlaying(hit, bird) ==
    /\ gameState = "PLAYING"
    /\ gameRef.frameCount < (IF changes > 0 THEN ChangeFrame ELSE MaxFrame)
    /\ hit => (budget > 0 /\ changes = 0 /\ idle < MaxIdle)
    /\ LET v     == webcam.v
           p0    == IF webcam.ready THEN PlayerControl(gameRef.player, v.gesture)
                    ELSE gameRef.player
           speed == IF webcam.ready THEN TurboSpeedOf(v) ELSE gameRef.currentSpeed
           p     == Gravity(p0)
           obs1  == spawnObstacle(gameRef.obstacles, speed, hit, bird, spawned + 1)
           r     == MoveAndCollide(obs1, Len(obs1), p, speed, gameRef.score, <<>>)
           over  == r.calls # <<>>
       IN  /\ visionState' = IF webcam.ready THEN v ELSE visionState
           /\ gameRef' = [player |-> p, obstacles |-> r.obstacles,
                          frameCount |-> gameRef.frameCount + 1,
                          currentSpeed |-> speed, score |-> r.score]
           /\ score' = IF r.score # gameRef.score THEN r.score ELSE score
           /\ gameState' = IF over THEN "GAME_OVER" ELSE gameState
           /\ aiMessage' = IF over /\ ~apiKey
                           THEN Message("nokey", r.calls[Len(r.calls)], session)
                           ELSE aiMessage
           /\ pending' = IF over /\ apiKey
                         THEN pending \cup Requests(r.calls, session)
                         ELSE pending
           /\ spawned' = spawned + (Len(obs1) - Len(gameRef.obstacles))
           /\ budget' = budget - (Len(obs1) - Len(gameRef.obstacles))
           /\ idle' = IF Len(obs1) # Len(gameRef.obstacles) THEN 0
                      ELSE IF SpawnGate(gameRef.obstacles, speed) /\ idle < MaxIdle
                           THEN idle + 1 ELSE idle
           /\ changes' = IF over THEN 0 ELSE changes
    /\ UNCHANGED <<webcam, apiKey, session, landmarks, script>>

\* One display frame: the requestAnimationFrame callback.
Tick ==
    \/ TickPaused
    \/ \E hit \in BOOLEAN : \E bird \in (IF hit THEN BOOLEAN ELSE {FALSE}) :
          TickPlaying(hit, bird)

\* handleGameOver, lines 91-92: the awaited request completes, with the
\* service's text or with the fallback (error or empty text).
CommentaryResolved ==
    \E r \in pending : \E kind \in {"ai", "fallback"} :
       /\ aiMessage' = Message(kind, r.score, r.session)
       /\ pending' = pending \ {r}
       /\ UNCHANGED <<gameState, score, visionState, gameRef, webcam, apiKey,
                      session, spawned, budget, idle, changes, landmarks,
                      script>>

\* The scene in front of the camera changes between two frames.
WebcamChange ==
    \E w \in Webcams :
       /\ w # webcam
       /\ IF gameState = "PLAYING"
          THEN changes < MaxChange /\ spawned = 0 /\ gameRef.frameCount < ChangeFrame
          ELSE changes < MaxPausedChange
       /\ webcam' = w
       /\ changes' = changes + 1
       /\ UNCHANGED <<gameState, score, visionState, aiMessage, gameRef, apiKey,
                      pending, session, spawned, budget, idle, landmarks,
                      script>>

Next == Tick \/ CommentaryResolved \/ WebcamChange

Spec == Init /\ [][Next]_vars

\* The vision service on its own: processVideoFrame applied to the hands the
\* landmarker detects in a video frame (no detection before it is loaded).
\* Spec above draws the resulting VisionState directly and leaves landmarks
\* empty.
InitVision ==
    /\ Init
    /\ webcam = [ready |-> FALSE, v |-> Neutral]
    /\ ~apiKey

VideoFrame ==
    \E landmarkerReady \in BOOLEAN :
    \E hands \in (IF landmarkerReady THEN HandSeqs ELSE {<<>>}) :
       /\ landmarks' = hands
       /\ webcam' = [ready |-> TRUE, v |-> processVideoFrame(landmarkerReady, hands)]
       /\ UNCHANGED <<gameState, score, visionState, aiMessage, gameRef, apiKey,
                      pending, session, spawned, budget, idle, changes, script>>

NextVision == VideoFrame

VisionSpec == InitVision /\ [][NextVision]_vars

\* A game played in front of scripted scenes: the scenes of the script follow
\* one another in a cycle, each staying for script.period frames.
SceneDue ==
    script.scenes[((gameRef.frameCount \div script.period) % Len(script.scenes)) + 1]

SceneChange ==
    /\ gameState = "PLAYING"
    /\ webcam # SceneDue
    /\ webcam' = SceneDue
    /\ UNCHANGED <<gameState, score, visionState, aiMessage, gameRef, apiKey,
                   pending, session, spawned, budget, idle, changes, landmarks,
                   script>>

ScriptedTick ==
    /\ gameState = "PLAYING" => webcam = SceneDue
    /\ Tick

\* An open palm held up while a second hand enters and leaves the picture:
\* the scroll speed alternates between BASE_SPEED and TurboSpeed (tick, lines
\* 167-170) with obstacles on the field.
TurboScenes ==
    <<[ready |-> TRUE, v |-> processVideoFrame(TRUE, <<PalmHand>>)],
      [ready |-> TRUE, v |-> processVideoFrame(TRUE, <<PalmHand, PalmHand>>)]>>

InitTurbo ==
    /\ gameState = "START"
    /\ score = 0
    /\ visionState = Neutral
    /\ aiMessage = NoMessage
    /\ gameRef = InitGame
    /\ script \in {[period |-> n, scenes |-> TurboScenes] : n \in 1..MaxPeriod}
    /\ webcam = script.scenes[1]
    /\ apiKey \in BOOLEAN
    /\ pending = {}
    /\ session = 0
    /\ spawned = 0
    /\ budget = MaxSpawn
    /\ idle = 0
    /\ changes = 0
    /\ landmarks = <<>>

NextTurbo == ScriptedTick \/ CommentaryResolved \/ SceneChange

TurboSpec == InitTurbo /\ [][NextTurbo]_vars

\* The player alone on the field: an open palm starts the game, then the
\* scenes of the script (at most one hand, or no camera frame) follow one
\* another. Every frame schedules the next one (requestAnimationFrame, lines
\* 232 and 395), hence the fairness condition.
JumpScenes == {w \in Webcams : w.v.handCount <= 1}

JumpScripts ==
    {[period |-> n, scenes |-> <<TurboScenes[1]>> \o q] :
        n \in 1..MaxPeriod,
        q \in UNION {[1..k -> JumpScenes] : k \in 0..(MaxScenes - 1)}}

InitJump ==
    /\ gameState = "START"
    /\ score = 0
    /\ visionState = Neutral
    /\ aiMessage = NoMessage
    /\ gameRef = InitGame
    /\ script \in JumpScripts
    /\ webcam = script.scenes[1]
    /\ apiKey = FALSE
    /\ pending = {}
    /\ session = 0
    /\ spawned = 0
    /\ budget = 0
    /\ idle = 0
    /\ changes = 0
    /\ landmarks = <<>>

NextJump == ScriptedTick \/ SceneChange

JumpSpec == InitJump /\ [][NextJump]_vars /\ WF_vars(NextJump)

----------------------------------------------------------------------------
(* Properties.                                                              *)

\* A step that is a display frame run while the phase is PLAYING: the only
\* step that advances the frame counter.
PlayingFrame ==
    /\ gameState = "PLAYING"
    /\ gameRef'.frameCount = gameRef.frameCount + 1

\* A step that is a display frame run while the phase is START or GAME_OVER
\* (a completion changes `pending`, a scene change changes `webcam`).
PausedFrame ==
    /\ gameState # "PLAYING"
    /\ webcam' = webcam
    /\ pending' = pending

ObstacleSet(obstacles) == {obstacles[i] : i \in DOMAIN obstacles}

ObstacleIds(obstacles) == {obstacles[i].id : i \in DOMAIN obstacles}

\* C1: the commentary text is either empty or the text that answers the
\* request issued by the game-over of the current session; a response to a
\* request of an earlier session is never written.
C1_NoStaleCommentary ==
    aiMessage.kind # "none" => aiMessage.session = session

\* C2: after the vertical integration of every frame the player's feet are
\* not below the ground line.
C2_FeetNotBelowGround ==
    gameRef.player.y + gameRef.player.height <= GROUND_Y

\* C3: a frame with THUMBS_UP in GAME_OVER leaves the Simulation State equal
\* to the initial one, the commentary text cleared and the phase PLAYING.
C3_ResetRestoresInitialState ==
    [][(PausedFrame /\ gameState = "GAME_OVER" /\ webcam.ready
                    /\ webcam.v.gesture = "THUMBS_UP")
       => /\ gameRef'.player = [x |-> 500, y |-> GROUND_Y - NORMAL_HEIGHT,
                                width |-> 400, height |-> NORMAL_HEIGHT, vy |-> 0,
                                isJumping |-> FALSE, isDucking |-> FALSE]
          /\ gameRef'.obstacles = <<>>
          /\ gameRef'.frameCount = 0
          /\ gameRef'.currentSpeed = BASE_SPEED
          /\ gameRef'.score = 0
          /\ score' = 0
          /\ aiMessage' = NoMessage
          /\ gameState' = "PLAYING"]_vars

C3_Witness ==
    /\ session = 1
    /\ gameState = "PLAYING"
    /\ gameRef.frameCount = 0
    /\ pending # {}

\* C4: the phase starts at START and changes only START -> PLAYING on
\* OPEN_PALM, PLAYING -> GAME_OVER on a frame that leaves the player
\* overlapping an obstacle, GAME_OVER -> PLAYING on THUMBS_UP; any other
\* frame in START or GAME_OVER changes neither the phase nor the Simulation
\* State.
C4_Trigger ==
    /\ webcam.ready
    /\ \/ gameState = "START" /\ webcam.v.gesture = "OPEN_PALM"
       \/ gameState = "GAME_OVER" /\ webcam.v.gesture = "THUMBS_UP"

C4_Step ==
    /\ gameState' # gameState =>
          \/ /\ gameState = "START" /\ gameState' = "PLAYING"
             /\ PausedFrame /\ webcam.ready /\ webcam.v.gesture = "OPEN_PALM"
          \/ /\ gameState = "PLAYING" /\ gameState' = "GAME_OVER"
             /\ PlayingFrame
             /\ \E o \in ObstacleSet(gameRef'.obstacles) :
                   /\ gameRef'.player.x < o.x + o.width
                   /\ gameRef'.player.x + gameRef'.player.width > o.x
                   /\ gameRef'.player.y < o.y + o.height
                   /\ gameRef'.player.y + gameRef'.player.height > o.y
          \/ /\ gameState = "GAME_OVER" /\ gameState' = "PLAYING"
             /\ PausedFrame /\ webcam.ready /\ webcam.v.gesture = "THUMBS_UP"
    /\ (gameState # "PLAYING" /\ ~C4_Trigger) =>
          (gameState' = gameState /\ gameRef' = gameRef)

C4_PhaseTransitions == (gameState = "START") /\ [][C4_Step]_vars

C4_Witness ==
    /\ session = 1
    /\ gameState = "GAME_OVER"

\* C5: the score is 10 times the number of obstacles removed since the last
\* reset, never decreases in a PLAYING frame, and a PLAYING frame removes
\* exactly the obstacles whose right edge is past the left boundary after
\* the move, adding 10 for each.
C5_Removed(speed) ==
    {o \in ObstacleSet(gameRef.obstacles) : o.x - speed + o.width < 0}

C5_Step ==
    PlayingFrame =>
       /\ gameRef'.score >= gameRef.score
       /\ ObstacleIds(gameRef.obstacles) \ ObstacleIds(gameRef'.obstacles)
             = {o.id : o \in C5_Removed(gameRef'.currentSpeed)}
       /\ gameRef'.score
             = gameRef.score + 10 * Cardinality(C5_Removed(gameRef'.currentSpeed))

C5_ScoreCountsRemovals ==
    /\ [](/\ gameRef.score = 10 * (spawned - Len(gameRef.obstacles))
          /\ score = gameRef.score)
    /\ [][C5_Step]_vars

C5_Witness ==
    /\ gameRef.score = 10
    /\ gameState = "PLAYING"
    /\ gameRef.obstacles # <<>>

\* C6: a PLAYING frame that starts with an obstacle whose distance to the
\* right edge is at most 250 + 10 * currentSpeed adds no obstacle; a frame
\* adds at most one obstacle, and it enters at x = CANVAS_WIDTH.
C6_Step ==
    PlayingFrame =>
       LET speed == gameRef'.currentSpeed
           old   == gameRef.obstacles
           added == {o \in ObstacleSet(gameRef'.obstacles) :
                        o.id \notin ObstacleIds(old)}
       IN  /\ (old # <<>> /\ CANVAS_WIDTH - old[Len(old)].x <= 2500 + 10 * speed)
                 => added = {}
           /\ Cardinality(added) <= 1
           /\ \A o \in added : o.x + speed = CANVAS_WIDTH

C6_SpawnGating == [][C6_Step]_vars

C6_Witness ==
    /\ gameState = "PLAYING"
    /\ Len(gameRef.obstacles) = 2
    /\ gameRef.currentSpeed = TurboSpeed
    /\ gameRef.obstacles[1].x - gameRef.obstacles[2].x < 0

\* C7: on every PLAYING frame the scroll speed is BASE_SPEED * 1.8 when that
\* frame's handCount is at least 2 and BASE_SPEED otherwise, a frame without
\* a ready camera frame counting as handCount 0.
C7_SpeedRecomputedEveryFrame ==
    [][PlayingFrame =>
         gameRef'.currentSpeed =
            IF webcam.ready /\ webcam.v.handCount >= 2
            THEN (BASE_SPEED * 18) \div 10 ELSE BASE_SPEED]_vars

\* C8: the CLOSED_FIST rule applied to a player that it has already ducked
\* leaves height = DUCK_HEIGHT and y = GROUND_Y - DUCK_HEIGHT as the first
\* application left them.
C8_DuckIdempotent ==
    LET once  == PlayerControl(gameRef.player, "CLOSED_FIST")
        twice == PlayerControl(once, "CLOSED_FIST")
    IN  /\ once.height = DUCK_HEIGHT
        /\ once.y = GROUND_Y - DUCK_HEIGHT
        /\ twice.height = once.height
        /\ twice.y = once.y
        /\ twice.isDucking /\ once.isDucking

C8_Witness ==
    /\ gameRef.frameCount = 3
    /\ gameRef.player.isDucking
    /\ visionState.gesture = "CLOSED_FIST"
    /\ gameRef.player.vy = JUMP_FORCE + 3 * GRAVITY + 2 * FastFall

\* C9: a PLAYING frame ends in GAME_OVER if and only if, after the
\* positions are updated, the player rectangle and some obstacle rectangle
\* overlap strictly on both axes.
C9_Overlap(p, o) ==
    /\ p.x < o.x + o.width
    /\ o.x < p.x + p.width
    /\ p.y < o.y + o.height
    /\ o.y < p.y + p.height

C9_CollisionIffOverlap ==
    [][PlayingFrame =>
         (gameState' = "GAME_OVER"
            <=> \E o \in ObstacleSet(gameRef'.obstacles) :
                   C9_Overlap(gameRef'.player, o))]_vars

C9_Witness ==
    /\ gameState = "GAME_OVER"
    /\ \E o \in ObstacleSet(gameRef.obstacles) :
          o.type = "BIRD" /\ C9_Overlap(gameRef.player, o)

\* C10: a frame for which no ready camera frame exists uses and exposes the
\* neutral Vision State: the HUD's Vision State is neutral after it, the
\* scroll speed is the base speed and a ducking player stands up.
C10_NeutralWithoutCameraFrame ==
    [][(PlayingFrame /\ ~webcam.ready) =>
          /\ visionState' = Neutral
          /\ gameRef'.currentSpeed = BASE_SPEED
          /\ ~gameRef'.player.isDucking]_vars

\* C11: a collision frame ends in GAME_OVER whether or not an API key is
\* set, and the phase stays GAME_OVER until a THUMBS_UP frame whatever
\* happens to the request; the completion of a request changes nothing but
\* the commentary text, which then carries the score of that request; the
\* text written without an API key carries the score passed to the request.
C11_Completion == pending' # pending /\ pending' \subseteq pending

C11_Step ==
    /\ C11_Completion =>
          /\ UNCHANGED <<gameState, gameRef, score, visionState>>
          /\ \E r \in pending \ pending' :
                /\ aiMessage'.kind \in {"ai", "fallback"}
                /\ aiMessage'.score = r.score
    /\ (PlayingFrame /\ \E o \in ObstacleSet(gameRef'.obstacles) :
                           C9_Overlap(gameRef'.player, o))
          => /\ gameState' = "GAME_OVER"
             /\ IF apiKey THEN pending' # pending /\ aiMessage' = aiMessage
                ELSE /\ aiMessage'.kind = "nokey"
                     /\ aiMessage'.score = gameRef'.score
                     /\ pending' = pending
    /\ (gameState = "GAME_OVER" /\ gameState' # "GAME_OVER")
          => (PausedFrame /\ webcam.ready /\ webcam.v.gesture = "THUMBS_UP")

C11_CommentaryDecoupled == [][C11_Step]_vars

C11_Witness ==
    /\ gameState = "GAME_OVER"
    /\ aiMessage.kind = "fallback"
    /\ aiMessage.score = 10
    /\ gameRef.score = 10

\* C12: while the phase is START or GAME_OVER no step other than the
\* THUMBS_UP frame of GAME_OVER changes the player, the obstacles, the
\* score, the scroll speed or the frame counter.
C12_SimulationFrozen ==
    [][(gameState # "PLAYING"
          /\ ~(gameState = "GAME_OVER" /\ webcam.ready
                 /\ webcam.v.gesture = "THUMBS_UP"))
       => /\ gameRef'.player = gameRef.player
          /\ gameRef'.obstacles = gameRef.obstacles
          /\ gameRef'.score = gameRef.score
          /\ gameRef'.currentSpeed = gameRef.currentSpeed
          /\ gameRef'.frameCount = gameRef.frameCount
          /\ score' = score]_vars

C12_Witness ==
    /\ gameState = "GAME_OVER"
    /\ gameRef.player.isJumping
    /\ changes = 1
    /\ webcam.ready
    /\ webcam.v.gesture = "CLOSED_FIST"
    /\ visionState = webcam.v

\* C13: the player's height is always DUCK_HEIGHT or NORMAL_HEIGHT, and
\* after every PLAYING frame that leaves the player not airborne the feet
\* are exactly on the ground line.
C13_PlayerInvariant ==
    /\ [](gameRef.player.height \in {DUCK_HEIGHT, NORMAL_HEIGHT})
    /\ [][(PlayingFrame /\ ~gameRef'.player.isJumping)
            => gameRef'.player.y + gameRef'.player.height = GROUND_Y]_vars

C13_Witness ==
    /\ gameState = "PLAYING"
    /\ changes = 0
    /\ webcam.ready
    /\ webcam.v.gesture = "OPEN_PALM"
    /\ gameRef.frameCount > 1
    /\ ~gameRef.player.isJumping
    /\ gameRef.player.y = GROUND_Y - NORMAL_HEIGHT

\* C14: on every PLAYING frame whose gesture is not CLOSED_FIST a player
\* who was ducking at the start of the frame has, after the input step,
\* NORMAL_HEIGHT, y = GROUND_Y - NORMAL_HEIGHT and the ducking flag cleared,
\* the frame of a jump out of a duck included.
C14_StandUp ==
    [][(PlayingFrame /\ webcam.ready /\ webcam.v.gesture # "CLOSED_FIST"
          /\ gameRef.player.isDucking)
       => LET q == PlayerControl(gameRef.player, webcam.v.gesture)
          IN  /\ gameRef'.player = Gravity(q)
              /\ q.height = NORMAL_HEIGHT
              /\ q.y = GROUND_Y - NORMAL_HEIGHT
              /\ ~q.isDucking]_vars

\* C15: a PLAYING frame with OPEN_PALM and a player who is not airborne
\* sets vy to JUMP_FORCE, marks the player airborne and clears ducking
\* before gravity acts; with a player already airborne the impulse is not
\* applied again; vy is never below JUMP_FORCE.
C15_JumpRule ==
    /\ [](gameRef.player.vy >= JUMP_FORCE)
    /\ [][(PlayingFrame /\ webcam.ready /\ webcam.v.gesture = "OPEN_PALM")
            => IF ~gameRef.player.isJumping
               THEN gameRef'.player =
                       Gravity([gameRef.player EXCEPT !.vy = JUMP_FORCE,
                                                      !.isJumping = TRUE,
                                                      !.isDucking = FALSE])
               ELSE gameRef'.player.vy \in {gameRef.player.vy + GRAVITY, 0}]_vars

C15_Witness ==
    /\ gameState = "PLAYING"
    /\ changes = 0
    /\ webcam.ready
    /\ webcam.v.gesture = "OPEN_PALM"
    /\ gameRef.frameCount > 40
    /\ gameRef.player.isJumping
    /\ gameRef.player.vy = JUMP_FORCE + GRAVITY

\* C16: a hand with n of index, middle, ring, pinky extended is THUMBS_UP
\* when the thumb is up and n = 0, else OPEN_PALM when n >= 3, else
\* CLOSED_FIST when n <= 1, else NONE; the gesture of a frame is that of
\* the first detected hand that is not NONE (NONE when there is none), and
\* isTurbo is handCount >= 2 whatever the gesture.
C16_Fingers(hand) == Cardinality({f \in {1, 2, 3, 4} : hand.open[f]})

C16_HandGesture(hand) ==
    CASE hand.thumbUp /\ C16_Fingers(hand) = 0 -> "THUMBS_UP"
      [] ~hand.thumbUp /\ C16_Fingers(hand) = 0 -> "CLOSED_FIST"
      [] C16_Fingers(hand) = 1 -> "CLOSED_FIST"
      [] C16_Fingers(hand) = 2 -> "NONE"
      [] C16_Fingers(hand) \in {3, 4} -> "OPEN_PALM"

C16_Classification ==
    webcam.ready =>
       LET shown == {i \in 1..Len(landmarks) : C16_HandGesture(landmarks[i]) # "NONE"}
       IN  /\ Len(landmarks) \in {0, 1, 2}
           /\ webcam.v.handCount = Len(landmarks)
           /\ webcam.v.isTurbo = (Len(landmarks) >= 2)
           /\ shown = {} => webcam.v.gesture = "NONE"
           /\ \A i \in shown :
                 (\A j \in shown : i <= j)
                    => webcam.v.gesture = C16_HandGesture(landmarks[i])

C16_Witness ==
    /\ webcam.ready
    /\ Len(landmarks) = 2
    /\ C16_Fingers(landmarks[1]) = 2
    /\ landmarks[2].thumbUp
    /\ C16_Fingers(landmarks[2]) = 0
    /\ webcam.v = [handCount |-> 2, gesture |-> "THUMBS_UP", isTurbo |-> TRUE]

\* C17: in every PLAYING frame, the frame of a collision included, every
\* obstacle present at the start of the obstacle pass (the one spawned by
\* the frame included) is moved left by exactly currentSpeed, and every
\* obstacle whose right edge is then left of the boundary is removed and
\* scored in that pass.
C17_Step ==
    PlayingFrame =>
       LET speed == gameRef'.currentSpeed
           old   == ObstacleSet(gameRef.obstacles)
           new   == ObstacleSet(gameRef'.obstacles)
           gone  == {o \in old : o.x - speed + o.width < 0}
       IN  /\ \A o \in old \ gone : [o EXCEPT !.x = o.x - speed] \in new
           /\ \A o \in gone : o.id \notin ObstacleIds(gameRef'.obstacles)
           /\ \A n \in new :
                 \/ \E o \in old \ gone : n = [o EXCEPT !.x = o.x - speed]
                 \/ n.id \notin ObstacleIds(gameRef.obstacles)
                       /\ n.x = CANVAS_WIDTH - speed
           /\ gameRef'.score = gameRef.score + 10 * Cardinality(gone)

C17_SinglePass == [][C17_Step]_vars

C17_Witness ==
    /\ gameState = "GAME_OVER"
    /\ Len(gameRef.obstacles) = 2
    /\ C9_Overlap(gameRef.player, gameRef.obstacles[1])
    /\ gameRef.obstacles[2].x < CANVAS_WIDTH - gameRef.currentSpeed

\* C18: the commentary request issued by the frame that ends PLAYING carries
\* the score the Simulation State holds, and the display shows, during
\* GAME_OVER.
C18_Step ==
    (PlayingFrame /\ gameState' = "GAME_OVER") =>
       /\ score' = gameRef'.score
       /\ IF apiKey
          THEN /\ pending' \ pending # {}
               /\ \A r \in pending' \ pending : r.score = gameRef'.score
          ELSE aiMessage'.score = gameRef'.score

C18_RequestCarriesFinalScore ==
    /\ [][C18_Step]_vars
    /\ [](gameState = "GAME_OVER" =>
             \A r \in pending : r.session = session => r.score = gameRef.score)

C18_Witness ==
    /\ gameState = "GAME_OVER"
    /\ apiKey
    /\ score = 10
    /\ \E r \in pending : r.session = session /\ r.score = 10

\* C19: the obstacle sequence is in spawn order, x increases strictly with
\* the index, and no obstacle whose right edge is left of the boundary
\* stays in the sequence.
C19_ObstacleOrder ==
    /\ \A i, j \in DOMAIN gameRef.obstacles :
          i < j => /\ gameRef.obstacles[i].id < gameRef.obstacles[j].id
                   /\ gameRef.obstacles[i].x < gameRef.obstacles[j].x
    /\ \A i \in DOMAIN gameRef.obstacles :
          ~(gameRef.obstacles[i].x + gameRef.obstacles[i].width < 0)

C19_Witness ==
    /\ gameState = "PLAYING"
    /\ Len(gameRef.obstacles) = 2
    /\ gameRef.obstacles[1].x < 0
    /\ gameRef.obstacles[2].x > 0

\* C20: the ducking flag and the height agree in every state: the player is
\* ducking exactly when the height is DUCK_HEIGHT, and a player who is not
\* ducking has NORMAL_HEIGHT.
C20_DuckFlagMatchesHeight ==
    /\ gameRef.player.isDucking <=> gameRef.player.height = DUCK_HEIGHT
    /\ ~gameRef.player.isDucking => gameRef.player.height = NORMAL_HEIGHT

\* C21: consecutive obstacles of the sequence are always more than 310 px
\* apart in x, however the speed alternates between base and turbo; at most
\* one obstacle overlaps the player, and a game over issues at most one
\* commentary request.
C21_Gaps ==
    /\ \A i \in DOMAIN gameRef.obstacles :
          i > 1 => gameRef.obstacles[i].x - gameRef.obstacles[i - 1].x > 3100
    /\ Cardinality({o \in ObstacleSet(gameRef.obstacles) :
                       C9_Overlap(gameRef.player, o)}) <= 1
    /\ Cardinality({r \in pending : r.session = session}) <= 1

C21_ObstaclesApart ==
    /\ []C21_Gaps
    /\ [][PlayingFrame => Cardinality(pending' \ pending) <= 1]_vars

C21_Witness ==
    /\ gameState = "GAME_OVER"
    /\ Len(gameRef.obstacles) = 2
    /\ C9_Overlap(gameRef.player, gameRef.obstacles[1])
    /\ (gameRef.obstacles[2].x - gameRef.obstacles[1].x) % BASE_SPEED # 0
    /\ (gameRef.obstacles[2].x - gameRef.obstacles[1].x) % TurboSpeed # 0
    /\ Cardinality(pending) = 1

\* C22: every jump ends: while frames keep occurring and the phase stays
\* PLAYING, a player who is airborne is eventually grounded (isJumping
\* false, vy = 0, feet on the ground line), whatever scenes the camera sees
\* in the meantime. A jump lasts at most C22_JumpFrames frames, so the
\* jumps in progress that many frames before the last explored frame are
\* the ones the exploration follows to their end.
C22_JumpFrames == (2 * (0 - JUMP_FORCE)) \div GRAVITY + 1

C22_Airborne ==
    /\ gameState = "PLAYING"
    /\ gameRef.player.isJumping
    /\ gameRef.frameCount <= MaxFrame - C22_JumpFrames

C22_Grounded ==
    /\ gameState = "PLAYING"
    /\ ~gameRef.player.isJumping
    /\ gameRef.player.vy = 0
    /\ gameRef.player.y + gameRef.player.height = GROUND_Y

C22_EveryJumpEnds == C22_Airborne ~> C22_Grounded

C22_Witness ==
    /\ C22_Grounded
    /\ gameRef.frameCount > 1
    /\ Len(script.scenes) = 3
    /\ script.scenes[1].v.gesture = "OPEN_PALM"
    /\ script.scenes[2].v.gesture = "CLOSED_FIST"
    /\ ~script.scenes[3].ready
    /\ gameRef.player.isDucking
    /\ webcam = script.scenes[3]

====
